---- MODULE Spec2Model ----
(***************************************************************************)
(* State-machine model of the AgentCore Gateway custom-resource Lambda      *)
(* (infra-cdk/lambdas/gateway-custom-resource/index.py).                    *)
(*                                                                          *)
(* One invocation of handler is a run of the program counter pc from        *)
(* "handler" back to "idle".  Every call to a collaborator (the control     *)
(* plane, the parameter store, the callback PUT) is one step whose outcome  *)
(* is chosen by the environment: it succeeds or it raises.  `stack` holds   *)
(* the active try blocks and return sites, so that an exception is routed   *)
(* to the except clause Python would run.                                   *)
(***************************************************************************)
EXTENDS Integers, Sequences, FiniteSets, TLC

\* ---------------------------------------------------------------- bounds
MaxInvocations == 2      \* handler invocations in one behaviour
MaxGateways    == 2      \* gateway ids the control plane hands out
MaxTargets     == 2      \* target ids the control plane hands out
CallCap        == 2      \* the call counters of an invocation stop here
SlowPoll       == 50     \* seconds a slow get_gateway poll may take
BenchTargets   == 3      \* targets of the gateway on delete_gateway's bench
MaxToolCalls   == 5      \* execute_python and cleanup calls on one tools object

\* ------------------------------------------------------ program constants
MaxRetries   == 5        \* create_target_with_retry(max_retries=5)
MaxWait      == 120      \* wait_for_gateway_ready(max_wait=120)
PollInterval == 10       \* time.sleep(10) in wait_for_gateway_ready
DeleteSleep  == 5        \* time.sleep(5) in delete_gateway

Names  == {"demo", "other"}
Region == "us-east-1"
Absent == "<absent>"     \* a key the event dict does not carry
None   == ""             \* Python None / falsy default of an optional argument
NoBody == [Status |-> None, Reason |-> None, PhysicalResourceId |-> None,
           Data |-> {}]

VARIABLES
  event,            \* the CloudFormation event of the current invocation
  pc,               \* position in the code
  stack,            \* active try blocks and return sites, innermost first
  exc,              \* str(e) of the exception being handled
  response_body,    \* send_response's response_body
  gateway_id, gateway_details, target_id,   \* create/update/delete locals
  todo,             \* delete_gateway: targets of the listing not yet visited
  attempt,          \* create_target_with_retry: loop variable
  tries,            \* create_target_with_retry: create calls of this run
  elapsed,          \* wait_for_gateway_ready: time.time() - start_time
  status,           \* wait_for_gateway_ready: status of the last poll
  polls,            \* wait_for_gateway_ready: polls of this run
  seen,             \* wait_for_gateway_ready: the statuses polled (bench only)
  slept,            \* seconds slept by the running retry or delete loop
  gateways,         \* control plane: gateway id -> name
  targets,          \* control plane: gateway id -> target ids, listing order
  nextGw, nextTg,   \* control plane: ids handed out so far
  inv,              \* invocations started
  prev,             \* the previous invocation, when it was a successful Create
  result,           \* what handler returned (or that it raised)
  puts,             \* bodies of the HTTP PUTs attempted in this invocation
  ssmLog,           \* put_parameter calls that succeeded in this invocation
  calls,            \* control-plane calls issued in this invocation
  obs,              \* observations of the current invocation (see NoObs)
  bench,            \* TRUE on the poller's test bench (SpecPoll): polls may be
                    \* slow and their statuses are recorded
  code_client,      \* CodeInterpreterTools: self._code_client (NoClient: None)
  sessions,         \* CodeInterpreter objects built so far -> session state
  tpc,              \* CodeInterpreterTools: position in the code
  hist,             \* start, stop and invoke calls made on clients, in order
  ops               \* execute_python and cleanup calls made so far

vars == <<event, pc, stack, exc, response_body, gateway_id, gateway_details,
          target_id, todo, attempt, tries, elapsed, status, polls, slept,
          gateways, targets, nextGw, nextTg, inv, prev, result, puts, ssmLog,
          calls, obs, seen, bench, code_client, sessions, tpc, hist, ops>>

remote == <<gateways, targets, nextGw, nextTg>>
retry  == <<attempt, tries>>
wait   == <<elapsed, status, polls, seen>>
locals == <<gateway_id, gateway_details, target_id, todo, retry, wait, slept>>
tools  == <<code_client, sessions, tpc, hist, ops>>
outer  == <<event, inv, prev, result, bench, tools>>

\* ------------------------------------------------------------ text helpers
Digit(d) ==
  CASE d = 0 -> "0" [] d = 1 -> "1" [] d = 2 -> "2" [] d = 3 -> "3"
    [] d = 4 -> "4" [] d = 5 -> "5" [] d = 6 -> "6" [] d = 7 -> "7"
    [] d = 8 -> "8" [] OTHER -> "9"

RECURSIVE Decimal(_)
\* f"{n}" for a non-negative int
Decimal(n) == IF n < 10 THEN Digit(n) ELSE Decimal(n \div 10) \o Digit(n % 10)

\* `sub in s` on Python strings
Contains(s, sub) ==
  \E i \in 1..(Len(s) - Len(sub) + 1) : SubSeq(s, i, i + Len(sub) - 1) = sub

RECURSIVE Pow2(_)
Pow2(k) == IF k = 0 THEN 1 ELSE 2 * Pow2(k - 1)

\* ----------------------------------------------------- the control plane
GwId(n) == "gw" \o Decimal(n)
TgId(n) == "tg" \o Decimal(n)
Exists(id) == id \in DOMAIN gateways
TargetsOf(id) == IF id \in DOMAIN targets THEN targets[id] ELSE <<>>
ApiUrl(id) == "https://" \o id \o ".example/mcp"
Statuses == {"CREATING", "UPDATING", "READY", "FAILED", "DELETING"}
\* messages of the errors the control plane raises
RemoteErrors == {"ValidationException: bad request",
                 "ConflictException: gateway is CREATING",
                 "ConflictException: gateway is UPDATING"}
NotFound  == "ResourceNotFoundException: no such gateway"
SsmError  == "ParameterStore: access denied"
HttpError == "MaxRetryError: callback unreachable"

\* --------------------------------------------------------- control flow
Try(at) == [kind |-> "try", at |-> at]   \* a try block; `at` is its except clause
Ret(at) == [kind |-> "ret", at |-> at]   \* a call; `at` is where it returns to

RECURSIVE Unwind(_)
\* where a raised exception lands: the innermost enclosing try block
Unwind(stk) ==
  IF stk = <<>> THEN [pc |-> "handler_escape", stack |-> <<>>]
  ELSE IF Head(stk).kind = "try" THEN [pc |-> Head(stk).at, stack |-> Tail(stk)]
  ELSE Unwind(Tail(stk))

RECURSIVE ReturnTo(_)
\* where a `return` lands: the function's own try blocks are left, then the
\* caller resumes; with no caller left, handler itself returns
ReturnTo(stk) ==
  IF stk = <<>> THEN [pc |-> "handler_return", stack |-> <<>>]
  ELSE IF Head(stk).kind = "try" THEN ReturnTo(Tail(stk))
  ELSE [pc |-> Head(stk).at, stack |-> Tail(stk)]

\* raise msg: control goes to the innermost except clause.  Only handler's
\* clause uses the message; the other except clauses log it.
Raise(msg) ==
  /\ pc' = Unwind(stack).pc
  /\ stack' = Unwind(stack).stack
  /\ exc' = IF Unwind(stack).pc = "handler_except" THEN msg ELSE None

Return ==
  /\ pc' = ReturnTo(stack).pc
  /\ stack' = ReturnTo(stack).stack
  /\ exc' = exc

Goto(l) == pc' = l /\ stack' = stack /\ exc' = exc
Call(l, frames) == pc' = l /\ stack' = frames \o stack /\ exc' = exc

\* -------------------------------------------------------- send_response
\* lines 463-472: the response body
ResponseBody(ev, st, reason, data, physical_resource_id) ==
  [Status |-> st,
   Reason |-> IF reason # None THEN reason ELSE st \o ": See CloudWatch logs",
   PhysicalResourceId |->
     IF physical_resource_id # None THEN physical_resource_id
     ELSE IF ev.PhysicalResourceId = Absent THEN "NONE"
     ELSE ev.PhysicalResourceId,
   Data |-> data]

\* the url always constructed, the reported one ignored
ResolveUrlMut(details, id, region) ==
  "https://" \o id \o ".gateway.bedrock-agentcore." \o region
  \o ".amazonaws.com/mcp"
\* "Extract gateway URL - construct if not provided"
ResolveUrl(details, id, region) ==
  IF details.gatewayUrl # None THEN details.gatewayUrl
  ELSE "https://" \o id \o ".gateway.bedrock-agentcore." \o region
       \o ".amazonaws.com/mcp"

SuccessData(id, url, tid) ==
  {<<"GatewayId", id>>, <<"GatewayUrl", url>>, <<"TargetId", tid>>}

\* ------------------------------------------------------ decisions in code
\* the comparison of line 214 inverted
NameChangedMut(ev) == ev.OldGatewayName = ev.GatewayName
\* update_gateway line 214
NameChanged(ev) == ev.OldGatewayName # ev.GatewayName
\* create_target_with_retry line 317
IsTransient(e) == Contains(e, "CREATING") \/ Contains(e, "UPDATING")
\* line 393 with DELETING left out of the list
IsTerminalFailureMut(st) == st \in {"FAILED"}
\* wait_for_gateway_ready line 393
IsTerminalFailure(st) == st \in {"FAILED", "DELETING"}
\* line 387 with <= for <
DeadlineOpenMut(t) == t <= MaxWait
\* wait_for_gateway_ready line 387
DeadlineOpen(t) == t < MaxWait
\* delete_gateway without its try block: a teardown error propagates
DeleteTryMut == Ret("delete_gateway_send")
\* delete_gateway lines 258/268: the try block around the teardown
DeleteTry == Try("delete_gateway_send")
\* create_gateway lines 114/144: the try block around the lookup
LookupTry == Try("create_new_gateway")
\* create_or_update_target without its try block: an error of the listing or
\* of the update propagates
TargetTryMut == Ret("create_target_with_retry")
\* create_or_update_target lines 344/365
TargetTry == Try("create_target_with_retry")
\* the wait wrapped in a try block that swallows its error
WaitCallMut == <<Ret("new_get_gateway"), Try("new_get_gateway")>>
\* create_gateway line 167: the call of wait_for_gateway_ready, outside any
\* try block of create_gateway
WaitCall == <<Ret("new_get_gateway")>>

\* ------------------------------------------------------------- bookkeeping
NoCalls == [create_gateway |-> 0, delete_gateway |-> 0,
            delete_gateway_target |-> 0, create_gateway_target |-> 0,
            update_gateway_target |-> 0]
\* the counters stop at CallCap ("CallCap or more")
Count(c) == calls' = [calls EXCEPT ![c] = IF @ < CallCap THEN @ + 1 ELSE @]

\* observations of the current invocation, kept for the properties only
NoObs == [handled |-> None,     \* message handler's except clause received
          existed |-> FALSE,    \* PhysicalResourceId named a gateway at start
          found |-> None,       \* id of the gateway the lookup of line 117 found
          created |-> None,     \* id returned by this invocation's create_gateway
          delPhase |-> "none",  \* delete_gateway: none / running / done
          wrExit |-> "none",    \* how wait_for_gateway_ready ended: none /
                                \* ready / FAILED / DELETING / timeout / error
          ctrExit |-> "none"]   \* how the last create_target_with_retry ended:
                                \* none / returned (at attempt 0) / retried
                                \* (returned later) / exhausted / error

NoResult == [raised |-> FALSE, body |-> NoBody]   \* handler still running
NoPrev == [GatewayName |-> Absent, PhysicalResourceId |-> None]
NoDetails == [gatewayId |-> None, gatewayUrl |-> None]

\* CodeInterpreterTools.__init__: no client yet
NoClient == 0
NewTools ==
  /\ code_client = NoClient /\ sessions = <<>> /\ tpc = "idle"
  /\ hist = <<>> /\ ops = 0

\* ------------------------------------------------------------- the events
\* physical ids an Update or Delete event may carry: "NONE" (what a failed
\* Create reported) or an id the control plane has handed out
PhysIds == {"NONE"} \cup {GwId(n) : n \in 1..(nextGw - 1)}

Event(rt, props, name, old, phys) ==
  [RequestType |-> rt, Props |-> props, GatewayName |-> name,
   OldGatewayName |-> old, PhysicalResourceId |-> phys]

\* Props: "ok" = every required property present; "incomplete" = LambdaArn
\* missing; "absent" = the event has no ResourceProperties
Events ==
  {Event("Create", "ok", n, Absent, Absent) : n \in Names}
  \cup {Event("Update", "ok", n, o, p) :
          n \in Names, o \in Names, p \in PhysIds \ {"NONE"}}
  \cup {Event("Delete", "ok", "demo", Absent, p) : p \in PhysIds}
  \cup {Event("Create", "incomplete", "demo", Absent, Absent),
        Event("Update", "incomplete", "demo", "demo", "NONE"),
        Event("Replace", "ok", "demo", Absent, Absent),
        Event(Absent, "ok", "demo", Absent, Absent),
        Event("Create", "absent", Absent, Absent, Absent)}

\* what the next invocation remembers of this one: a Create that reported
\* SUCCESS, with the name it asked for and the id it reported
Summary(ev, res) ==
  IF ev.RequestType = "Create" /\ ~res.raised /\ res.body.Status = "SUCCESS"
  THEN [GatewayName |-> ev.GatewayName,
        PhysicalResourceId |-> res.body.PhysicalResourceId]
  ELSE NoPrev

Init ==
  /\ event = Event(Absent, "absent", Absent, Absent, Absent)
  /\ pc = "idle" /\ stack = <<>> /\ exc = None
  /\ response_body = NoBody
  /\ gateway_id = None /\ gateway_details = NoDetails /\ target_id = None
  /\ todo = <<>> /\ attempt = 0 /\ tries = 0
  /\ elapsed = 0 /\ status = None /\ polls = 0 /\ seen = <<>> /\ slept = 0
  /\ gateways = <<>> /\ targets = <<>> /\ nextGw = 1 /\ nextTg = 1
  /\ inv = 0 /\ prev = NoPrev /\ result = NoResult
  /\ puts = <<>> /\ ssmLog = <<>> /\ calls = NoCalls
  /\ obs = NoObs
  /\ bench = FALSE
  /\ NewTools

\* the stack engine invokes the Lambda with an event
Invoke ==
  /\ pc = "idle" /\ inv < MaxInvocations
  /\ \E ev \in Events :
       /\ event' = ev
       /\ obs' = [NoObs EXCEPT !.existed = Exists(ev.PhysicalResourceId)]
  /\ pc' = "handler" /\ stack' = <<>> /\ exc' = None
  /\ response_body' = NoBody
  /\ gateway_id' = None /\ gateway_details' = NoDetails /\ target_id' = None
  /\ todo' = <<>> /\ attempt' = 0 /\ tries' = 0
  /\ elapsed' = 0 /\ status' = None /\ polls' = 0 /\ seen' = <<>>
  /\ slept' = 0
  /\ inv' = inv + 1
  /\ prev' = Summary(event, result)
  /\ result' = NoResult
  /\ puts' = <<>> /\ ssmLog' = <<>> /\ calls' = NoCalls
  /\ UNCHANGED <<remote, bench, tools>>

\* ---------------------------------------------------------------- handler
Returned(body) == [raised |-> FALSE, body |-> body]
Escaped == [raised |-> TRUE, body |-> NoBody]

\* lines 70-81: the two subscripts are outside the try block, so a KeyError
\* there leaves handler
handler ==
  /\ pc = "handler"
  /\ IF event.RequestType = Absent \/ event.Props = "absent"
     THEN /\ pc' = "idle" /\ stack' = <<>>
          /\ exc' = IF event.RequestType = Absent THEN "'RequestType'"
                    ELSE "'ResourceProperties'"
          /\ result' = Escaped
     ELSE /\ result' = result
          /\ IF event.RequestType = "Create"
             THEN Call("create_gateway", <<Try("handler_except")>>)
             ELSE IF event.RequestType = "Update"
             THEN Call("update_gateway", <<Try("handler_except")>>)
             ELSE IF event.RequestType = "Delete"
             THEN Call("delete_gateway", <<Try("handler_except")>>)
             ELSE /\ pc' = "handler_except" /\ stack' = <<>>
                  /\ exc' = "Unknown request type: " \o event.RequestType
  /\ UNCHANGED <<event, inv, prev, bench, tools, response_body, locals, remote, puts,
                 ssmLog, calls, obs>>

\* lines 83-85; the locals of the functions the exception left are gone
handler_except ==
  /\ pc = "handler_except"
  /\ response_body' = ResponseBody(event, "FAILED", exc, {}, None)
  /\ obs' = [obs EXCEPT !.handled = exc]
  /\ gateway_id' = None /\ gateway_details' = NoDetails /\ target_id' = None
  /\ todo' = <<>> /\ slept' = 0 /\ attempt' = 0 /\ tries' = 0
  /\ elapsed' = 0 /\ status' = None /\ polls' = 0 /\ seen' = <<>>
  /\ Goto("send_response")
  /\ UNCHANGED <<remote, outer, puts, ssmLog, calls>>

\* lines 476-484: the HTTP PUT, attempted once; it is delivered or it raises.
\* When the function that called send_response was handler itself, or one
\* whose result handler returns, the invocation ends here: handler returns the
\* body, or the error of the PUT leaves handler's except clause.
send_response ==
  /\ pc = "send_response"
  /\ puts' = Append(puts, response_body)
  /\ \/ /\ ReturnTo(stack).pc # "handler_return"
        /\ Return
        /\ result' = result
        /\ obs' = [obs EXCEPT !.delPhase = IF @ = "running" THEN "done" ELSE @]
     \/ /\ ReturnTo(stack).pc = "handler_return"
        /\ pc' = "idle" /\ stack' = <<>> /\ exc' = exc
        /\ result' = Returned(response_body)
        /\ obs' = [obs EXCEPT !.delPhase = IF @ = "running" THEN "done" ELSE @]
     \/ /\ Unwind(stack).pc # "handler_escape"
        /\ Raise(HttpError)
        /\ result' = result
        /\ obs' = obs
     \/ /\ Unwind(stack).pc = "handler_escape"
        /\ pc' = "idle" /\ stack' = <<>> /\ exc' = HttpError
        /\ result' = Escaped
        /\ obs' = obs
  /\ UNCHANGED <<event, inv, prev, bench, tools, response_body, locals, remote,
                 ssmLog, calls>>

\* --------------------------------------------------------- create_gateway
\* lines 108-114: read the properties, enter the lookup try block
create_gateway ==
  /\ pc = "create_gateway"
  /\ IF event.Props = "incomplete"
     THEN Raise("'LambdaArn'")
     ELSE Call("list_gateways", <<LookupTry>>)
  /\ UNCHANGED <<response_body, locals, remote, outer, puts, ssmLog, calls,
                 obs>>

\* lines 115-119: list the gateways and look for one with the requested name;
\* the control plane decides the order of the listing
list_gateways ==
  /\ pc = "list_gateways"
  /\ \/ /\ \E id \in DOMAIN gateways :
             /\ gateways[id] = event.GatewayName
             /\ gateway_id' = id
             /\ obs' = [obs EXCEPT !.found = id]
        /\ Goto("existing_get_gateway")
     \/ /\ \A id \in DOMAIN gateways : gateways[id] # event.GatewayName
        /\ pc' = "create_new_gateway" /\ stack' = Tail(stack) /\ exc' = exc
        /\ UNCHANGED <<gateway_id, obs>>
     \/ /\ Raise("ServiceException: list_gateways failed")
        /\ UNCHANGED <<gateway_id, obs>>
  /\ UNCHANGED <<response_body, gateway_details, target_id, todo, retry, wait,
                 slept, remote, outer, puts, ssmLog, calls>>

\* what get_gateway returns for an existing gateway: the url may be absent
GatewayDetails(id) ==
  {[gatewayId |-> id, gatewayUrl |-> u] : u \in {None, ApiUrl(id)}}

\* the message of a failing call on gateway id
CallError(id, e) == IF Exists(id) THEN e ELSE NotFound

\* lines 120-123: get_gateway on the gateway found, then create_or_update_target
existing_get_gateway ==
  /\ pc = "existing_get_gateway"
  /\ \/ /\ Exists(gateway_id)
        /\ \E d \in GatewayDetails(gateway_id) : gateway_details' = d
        /\ Call("list_gateway_targets", <<TargetTry, Ret("existing_update_ssm")>>)
     \/ /\ Raise(CallError(gateway_id, "ServiceException: get_gateway failed"))
        /\ gateway_details' = gateway_details
  /\ UNCHANGED <<response_body, gateway_id, target_id, todo, retry, wait,
                 slept, remote, outer, puts, ssmLog, calls, obs>>

\* line 124
existing_update_ssm ==
  /\ pc = "existing_update_ssm"
  /\ Call("put_gateway_url", <<Ret("existing_send")>>)
  /\ UNCHANGED <<response_body, locals, remote, outer, puts, ssmLog, calls,
                 obs>>

\* the SUCCESS body of create_gateway and update_gateway
SuccessBody ==
  ResponseBody(event, "SUCCESS", None,
               SuccessData(gateway_id,
                           ResolveUrl(gateway_details, gateway_id, Region),
                           target_id),
               gateway_id)

\* lines 126-143
existing_send ==
  /\ pc = "existing_send"
  /\ response_body' = SuccessBody
  /\ Goto("send_response")
  /\ UNCHANGED <<locals, remote, outer, puts, ssmLog, calls, obs>>

\* lines 147-167: create_gateway on the control plane, then wait for READY.
\* The control plane hands out a fresh id; whether it accepts a name that is
\* already in use is its own decision.
create_new_gateway ==
  /\ pc = "create_new_gateway"
  /\ Count("create_gateway")
  /\ \/ /\ nextGw <= MaxGateways
        /\ gateways' = (GwId(nextGw) :> event.GatewayName) @@ gateways
        /\ targets' = (GwId(nextGw) :> <<>>) @@ targets
        /\ nextGw' = nextGw + 1
        /\ gateway_id' = GwId(nextGw)
        /\ obs' = [obs EXCEPT !.created = GwId(nextGw)]
        /\ Call("wait_for_gateway_ready", WaitCall)
     \/ /\ Raise("ServiceException: create_gateway failed")
        /\ UNCHANGED <<gateways, targets, nextGw, gateway_id, obs>>
  \* what the lookup left in these locals is never read again (lines 168-169
  \* assign them first)
  /\ gateway_details' = NoDetails /\ target_id' = None
  /\ UNCHANGED <<response_body, todo, retry, wait, slept, nextTg, outer, puts,
                 ssmLog>>

\* line 168, then line 169: create_target_with_retry
new_get_gateway ==
  /\ pc = "new_get_gateway"
  /\ \/ /\ Exists(gateway_id)
        /\ \E d \in GatewayDetails(gateway_id) : gateway_details' = d
        /\ Call("create_target_with_retry", <<Ret("new_update_ssm")>>)
     \/ /\ Raise(CallError(gateway_id, "ServiceException: get_gateway failed"))
        /\ gateway_details' = gateway_details
  /\ UNCHANGED <<response_body, gateway_id, target_id, todo, retry, wait,
                 slept, remote, outer, puts, ssmLog, calls, obs>>

\* line 170
new_update_ssm ==
  /\ pc = "new_update_ssm"
  /\ Call("put_gateway_url", <<Ret("new_send")>>)
  /\ UNCHANGED <<response_body, locals, remote, outer, puts, ssmLog, calls,
                 obs>>

\* lines 172-189
new_send ==
  /\ pc = "new_send"
  /\ response_body' = SuccessBody
  /\ Goto("send_response")
  /\ UNCHANGED <<locals, remote, outer, puts, ssmLog, calls, obs>>

\* --------------------------------------------------------- update_gateway
\* lines 208-219
update_gateway ==
  /\ pc = "update_gateway"
  /\ gateway_id' = event.PhysicalResourceId
  /\ IF event.Props = "incomplete"
     THEN Raise("'LambdaArn'")
     ELSE IF NameChanged(event)
     THEN Call("delete_gateway", <<Ret("update_recreate")>>)
     ELSE Call("list_gateway_targets", <<TargetTry, Ret("update_get_gateway")>>)
  /\ UNCHANGED <<response_body, gateway_details, target_id, todo, retry, wait,
                 slept, remote, outer, puts, ssmLog, calls, obs>>

\* line 217: return create_gateway(event, props)
update_recreate ==
  /\ pc = "update_recreate"
  /\ Goto("create_gateway")
  /\ UNCHANGED <<response_body, locals, remote, outer, puts, ssmLog, calls,
                 obs>>

\* lines 220-221
update_get_gateway ==
  /\ pc = "update_get_gateway"
  /\ \/ /\ Exists(gateway_id)
        /\ \E d \in GatewayDetails(gateway_id) : gateway_details' = d
        /\ Call("put_gateway_url", <<Ret("update_send")>>)
     \/ /\ Raise(CallError(gateway_id, "ServiceException: get_gateway failed"))
        /\ gateway_details' = gateway_details
  /\ UNCHANGED <<response_body, gateway_id, target_id, todo, retry, wait,
                 slept, remote, outer, puts, ssmLog, calls, obs>>

\* lines 223-238
update_send ==
  /\ pc = "update_send"
  /\ response_body' = SuccessBody
  /\ Goto("send_response")
  /\ UNCHANGED <<locals, remote, outer, puts, ssmLog, calls, obs>>

\* --------------------------------------------------------- delete_gateway
Without(seq, x) == SelectSeq(seq, LAMBDA y : y # x)
Drop(f, k) == [i \in DOMAIN f \ {k} |-> f[i]]

\* the loop left after its first turn
DeleteNextMut(rest) == "delete_the_gateway"
\* after the listing or one target: the next target, or the gateway itself
DeleteNext(rest) ==
  IF rest = <<>> THEN "delete_the_gateway" ELSE "delete_gateway_target"

\* lines 256-258
delete_gateway ==
  /\ pc = "delete_gateway"
  /\ gateway_id' = event.PhysicalResourceId
  /\ slept' = 0
  /\ obs' = [obs EXCEPT !.delPhase = "running"]
  /\ Call("delete_list_targets", <<DeleteTry>>)
  /\ UNCHANGED <<response_body, gateway_details, target_id, todo, retry, wait,
                 remote, outer, puts, ssmLog, calls>>

\* lines 260-261
delete_list_targets ==
  /\ pc = "delete_list_targets"
  /\ \/ /\ Exists(gateway_id)
        /\ todo' = TargetsOf(gateway_id)
        /\ Goto(DeleteNext(TargetsOf(gateway_id)))
     \/ /\ Raise(CallError(gateway_id,
                           "ServiceException: list_gateway_targets failed"))
        /\ todo' = todo
  /\ UNCHANGED <<response_body, gateway_id, gateway_details, target_id, retry,
                 wait, slept, remote, outer, puts, ssmLog, calls, obs>>

\* lines 262-264
delete_gateway_target ==
  /\ pc = "delete_gateway_target"
  /\ Count("delete_gateway_target")
  /\ \/ /\ Exists(gateway_id)
        /\ targets' = [targets EXCEPT ![gateway_id] = Without(@, Head(todo))]
        /\ Goto("delete_sleep")
     \/ /\ Raise("ConflictException: target is being deleted")
        /\ targets' = targets
  /\ UNCHANGED <<response_body, locals, gateways, nextGw, nextTg, outer, puts,
                 ssmLog, obs>>

\* line 265
delete_sleep ==
  /\ pc = "delete_sleep"
  /\ slept' = slept + DeleteSleep
  /\ todo' = Tail(todo)
  /\ Goto(DeleteNext(Tail(todo)))
  /\ UNCHANGED <<response_body, gateway_id, gateway_details, target_id, retry,
                 wait, remote, outer, puts, ssmLog, calls, obs>>

\* line 267, leaving the try block on success
delete_the_gateway ==
  /\ pc = "delete_the_gateway"
  /\ Count("delete_gateway")
  /\ \/ /\ Exists(gateway_id)
        /\ gateways' = Drop(gateways, gateway_id)
        /\ targets' = Drop(targets, gateway_id)
        /\ pc' = "delete_gateway_send" /\ stack' = Tail(stack) /\ exc' = exc
     \/ /\ Raise(CallError(gateway_id, "ConflictException: gateway in use"))
        /\ UNCHANGED <<gateways, targets>>
  /\ UNCHANGED <<response_body, locals, nextGw, nextTg, outer, puts, ssmLog,
                 obs>>

\* line 271
delete_gateway_send ==
  /\ pc = "delete_gateway_send"
  /\ response_body' = ResponseBody(event, "SUCCESS", None, {}, gateway_id)
  /\ todo' = <<>> /\ slept' = 0
  /\ Goto("send_response")
  /\ UNCHANGED <<gateway_id, gateway_details, target_id, retry, wait, remote,
                 outer, puts, ssmLog, calls, obs>>

\* ------------------------------------------------ create_or_update_target
\* line 346: if targets.get("items")
HasItems(items) == items # <<>>

\* lines 345-347 (first half of the try block)
list_gateway_targets ==
  /\ pc = "list_gateway_targets"
  /\ \/ /\ Exists(gateway_id) /\ HasItems(TargetsOf(gateway_id))
        /\ target_id' = Head(TargetsOf(gateway_id))
        /\ Goto("update_gateway_target")
     \/ /\ Exists(gateway_id) /\ ~HasItems(TargetsOf(gateway_id))
        /\ target_id' = target_id
        /\ pc' = "create_target_with_retry" /\ stack' = Tail(stack)
        /\ exc' = exc
     \/ /\ Raise(CallError(gateway_id,
                           "ServiceException: list_gateway_targets failed"))
        /\ target_id' = target_id
  /\ UNCHANGED <<response_body, gateway_id, gateway_details, todo, retry, wait,
                 slept, remote, outer, puts, ssmLog, calls, obs>>

\* lines 348-364
update_gateway_target ==
  /\ pc = "update_gateway_target"
  /\ Count("update_gateway_target")
  /\ \/ Exists(gateway_id) /\ Return
     \/ \E e \in RemoteErrors : Raise(e)
  /\ UNCHANGED <<response_body, locals, remote, outer, puts, ssmLog, obs>>

\* ----------------------------------------------- create_target_with_retry
ExhaustedMessage ==
  "Failed to create target after " \o Decimal(MaxRetries) \o " attempts"

\* range(max_retries) taken one too far
InRangeMut(a) == a <= MaxRetries
\* line 296: for attempt in range(max_retries)
InRange(a) == a < MaxRetries

\* line 318
WaitTime(a) == Pow2(a)

\* line 296, first turn of the loop (reached from line 169 or line 368)
create_target_with_retry ==
  /\ pc = "create_target_with_retry"
  /\ attempt' = 0 /\ tries' = 0 /\ slept' = 0
  /\ obs' = [obs EXCEPT !.ctrExit = "none"]
  /\ Goto(IF InRange(0) THEN "create_gateway_target" ELSE "retry_exhausted")
  /\ UNCHANGED <<response_body, gateway_id, gateway_details, target_id, todo,
                 wait, remote, outer, puts, ssmLog, calls>>

\* lines 298-313: one create call; it returns a target id or raises e
create_gateway_target ==
  /\ pc = "create_gateway_target"
  /\ Count("create_gateway_target")
  /\ tries' = tries + 1
  /\ \/ /\ Exists(gateway_id) /\ nextTg <= MaxTargets
        /\ targets' = [targets EXCEPT ![gateway_id] = Append(@, TgId(nextTg))]
        /\ nextTg' = nextTg + 1
        /\ target_id' = TgId(nextTg)
        /\ Goto("retry_return")
     \/ /\ \E e \in RemoteErrors :
             /\ pc' = "retry_except" /\ stack' = stack
             /\ exc' = CallError(gateway_id, e)
        /\ UNCHANGED <<targets, nextTg, target_id>>
  /\ UNCHANGED <<response_body, gateway_id, gateway_details, todo, attempt,
                 wait, slept, gateways, nextGw, outer, puts, ssmLog, obs>>

\* line 314: return response["targetId"]
retry_return ==
  /\ pc = "retry_return"
  /\ attempt' = 0 /\ tries' = 0 /\ slept' = 0
  /\ obs' = [obs EXCEPT !.ctrExit = IF attempt = 0 THEN "returned"
                                    ELSE "retried"]
  /\ Return
  /\ UNCHANGED <<response_body, gateway_id, gateway_details, target_id, todo,
                 wait, remote, outer, puts, ssmLog, calls>>

\* lines 316-322: sleep 2**attempt and take the next turn, or re-raise
retry_except ==
  /\ pc = "retry_except"
  /\ IF IsTransient(exc)
     THEN /\ slept' = slept + WaitTime(attempt)
          /\ attempt' = attempt + 1
          /\ tries' = tries
          /\ obs' = obs
          /\ pc' = IF InRange(attempt + 1) THEN "create_gateway_target"
                   ELSE "retry_exhausted"
          /\ stack' = stack /\ exc' = None
     ELSE /\ attempt' = 0 /\ tries' = 0 /\ slept' = 0
          /\ obs' = [obs EXCEPT !.ctrExit = "error"]
          /\ Raise(exc)
  /\ UNCHANGED <<response_body, gateway_id, gateway_details, target_id, todo,
                 wait, remote, outer, puts, ssmLog, calls>>

\* line 324
retry_exhausted ==
  /\ pc = "retry_exhausted"
  /\ attempt' = 0 /\ tries' = 0 /\ slept' = 0
  /\ obs' = [obs EXCEPT !.ctrExit = "exhausted"]
  /\ Raise(ExhaustedMessage)
  /\ UNCHANGED <<response_body, gateway_id, gateway_details, target_id, todo,
                 wait, remote, outer, puts, ssmLog, calls>>

\* ------------------------------------------------- wait_for_gateway_ready
TimeoutMessage == "Gateway not ready after " \o Decimal(MaxWait) \o "s"
StatusMessage(st) == "Gateway in unexpected status: " \o st

\* how long one get_gateway call of the poller may take
PollTimes == IF bench THEN {0, SlowPoll} ELSE {0}

\* line 386: start_time = time.time()
wait_for_gateway_ready ==
  /\ pc = "wait_for_gateway_ready"
  /\ elapsed' = 0 /\ status' = None /\ polls' = 0 /\ seen' = <<>>
  /\ obs' = [obs EXCEPT !.wrExit = "none"]
  /\ Goto("wait_check")
  /\ UNCHANGED <<response_body, gateway_id, gateway_details, target_id, todo,
                 retry, slept, remote, outer, puts, ssmLog, calls>>

\* line 387: the loop condition
wait_check ==
  /\ pc = "wait_check"
  /\ Goto(IF DeadlineOpen(elapsed) THEN "wait_poll" ELSE "wait_timeout")
  /\ UNCHANGED <<response_body, locals, remote, outer, puts, ssmLog, calls,
                 obs>>

\* lines 388-396: one poll and the branch on the status it reports; on a
\* status that is neither READY nor a terminal failure, the sleep of line 396
wait_poll ==
  /\ pc = "wait_poll"
  /\ polls' = polls + 1
  /\ \/ \E st \in Statuses, d \in PollTimes :
          /\ Exists(gateway_id)
          /\ status' = st
          /\ seen' = IF bench THEN Append(seen, st) ELSE seen
          /\ obs' = obs
          /\ IF st = "READY"
             THEN elapsed' = elapsed + d /\ Goto("wait_return")
             ELSE IF IsTerminalFailure(st)
             THEN elapsed' = elapsed + d /\ Goto("wait_raise")
             ELSE elapsed' = elapsed + d + PollInterval /\ Goto("wait_check")
     \/ /\ Raise(CallError(gateway_id, "ServiceException: get_gateway failed"))
        /\ obs' = [obs EXCEPT !.wrExit = "error"]
        /\ UNCHANGED <<elapsed, status, seen>>
  /\ UNCHANGED <<response_body, gateway_id, gateway_details, target_id, todo,
                 retry, slept, remote, outer, puts, ssmLog, calls>>

\* line 392
wait_return ==
  /\ pc = "wait_return"
  /\ elapsed' = 0 /\ status' = None /\ polls' = 0 /\ seen' = <<>>
  /\ obs' = [obs EXCEPT !.wrExit = "ready"]
  /\ Return
  /\ UNCHANGED <<response_body, gateway_id, gateway_details, target_id, todo,
                 retry, slept, remote, outer, puts, ssmLog, calls>>

\* line 394
wait_raise ==
  /\ pc = "wait_raise"
  /\ elapsed' = 0 /\ status' = None /\ polls' = 0 /\ seen' = <<>>
  /\ obs' = [obs EXCEPT !.wrExit = status]
  /\ Raise(StatusMessage(status))
  /\ UNCHANGED <<response_body, gateway_id, gateway_details, target_id, todo,
                 retry, slept, remote, outer, puts, ssmLog, calls>>

\* line 398
wait_timeout ==
  /\ pc = "wait_timeout"
  /\ elapsed' = 0 /\ status' = None /\ polls' = 0 /\ seen' = <<>>
  /\ obs' = [obs EXCEPT !.wrExit = "timeout"]
  /\ Raise(TimeoutMessage)
  /\ UNCHANGED <<response_body, gateway_id, gateway_details, target_id, todo,
                 retry, slept, remote, outer, puts, ssmLog, calls>>

\* -------------------------------------------------- update_ssm_parameters
\* the url is written whether or not the record carries one
UrlKnownMut(details) == TRUE
\* line 418: if gateway_url
UrlKnown(details) == details.gatewayUrl # None

\* lines 417-424: written only when the gateway record carries a url
put_gateway_url ==
  /\ pc = "put_gateway_url"
  /\ \/ /\ ~UrlKnown(gateway_details)
        /\ ssmLog' = ssmLog
        /\ Goto("put_target_id")
     \/ /\ UrlKnown(gateway_details)
        /\ ssmLog' = Append(ssmLog, <<"gateway_url", gateway_details.gatewayUrl>>)
        /\ Goto("put_target_id")
     \/ /\ UrlKnown(gateway_details)
        /\ ssmLog' = ssmLog
        /\ Raise(SsmError)
  /\ UNCHANGED <<response_body, locals, remote, outer, puts, calls, obs>>

\* lines 426-428
put_target_id ==
  /\ pc = "put_target_id"
  /\ \/ /\ ssmLog' = Append(ssmLog, <<"target_id", target_id>>)
        /\ Goto("put_gateway_id")
     \/ /\ ssmLog' = ssmLog
        /\ Raise(SsmError)
  /\ UNCHANGED <<response_body, locals, remote, outer, puts, calls, obs>>

\* lines 430-435
put_gateway_id ==
  /\ pc = "put_gateway_id"
  /\ \/ /\ ssmLog' = Append(ssmLog, <<"gateway_id", gateway_details.gatewayId>>)
        /\ Return
     \/ /\ ssmLog' = ssmLog
        /\ Raise(SsmError)
  /\ UNCHANGED <<response_body, locals, remote, outer, puts, calls, obs>>

\* ------------------------------------------------------------------- Spec
Next ==
  \/ Invoke
  \/ handler \/ handler_except
  \/ send_response
  \/ create_gateway \/ list_gateways \/ existing_get_gateway
  \/ existing_update_ssm \/ existing_send
  \/ create_new_gateway \/ new_get_gateway \/ new_update_ssm \/ new_send
  \/ update_gateway \/ update_recreate \/ update_get_gateway \/ update_send
  \/ delete_gateway \/ delete_list_targets \/ delete_gateway_target
  \/ delete_sleep \/ delete_the_gateway \/ delete_gateway_send
  \/ list_gateway_targets \/ update_gateway_target
  \/ create_target_with_retry \/ create_gateway_target \/ retry_return
  \/ retry_except \/ retry_exhausted
  \/ wait_for_gateway_ready \/ wait_check \/ wait_poll \/ wait_return
  \/ wait_raise \/ wait_timeout
  \/ put_gateway_url \/ put_target_id \/ put_gateway_id

Spec == Init /\ [][Next]_vars

\* ------------------------------------------------- the poller's test bench
\* wait_for_gateway_ready on its own, entered as create_gateway enters it for
\* a Create of "demo" that found no gateway and created gw1.  The program runs
\* on until the function returns or raises.
InitPoll ==
  /\ event = Event("Create", "ok", "demo", Absent, Absent)
  /\ pc = "wait_for_gateway_ready"
  /\ stack = <<Ret("new_get_gateway"), Try("handler_except")>>
  /\ exc = None /\ response_body = NoBody
  /\ gateway_id = GwId(1) /\ gateway_details = NoDetails /\ target_id = None
  /\ todo = <<>> /\ attempt = 0 /\ tries = 0
  /\ elapsed = 0 /\ status = None /\ polls = 0 /\ seen = <<>> /\ slept = 0
  /\ gateways = (GwId(1) :> "demo") /\ targets = (GwId(1) :> <<>>)
  /\ nextGw = 2 /\ nextTg = 1
  /\ inv = 1 /\ prev = NoPrev /\ result = NoResult
  /\ puts = <<>> /\ ssmLog = <<>>
  /\ calls = [NoCalls EXCEPT !.create_gateway = 1]
  /\ obs = [NoObs EXCEPT !.created = GwId(1)]
  /\ bench = TRUE
  /\ NewTools

NextPoll ==
  \/ wait_for_gateway_ready \/ wait_check \/ wait_poll \/ wait_return
  \/ wait_raise \/ wait_timeout

SpecPoll == InitPoll /\ [][NextPoll]_vars /\ WF_vars(NextPoll)

\* ----------------------------------------- delete_gateway's test bench
\* the listings of a gateway that was handed the target ids tg1..tgk, in any
\* order the control plane may list them
RECURSIVE Listings(_)
Listings(ids) ==
  IF ids = {} THEN {<<>>}
  ELSE UNION {{<<x>> \o l : l \in Listings(ids \ {x})} : x \in ids}

\* handler is invoked with a Delete event for gw1, which holds k targets, or
\* for an id that names no gateway
InitDelete ==
  /\ \E p \in {GwId(1), "NONE"} :
       /\ event = Event("Delete", "ok", "demo", Absent, p)
       /\ obs = [NoObs EXCEPT !.existed = (p = GwId(1))]
  /\ pc = "handler" /\ stack = <<>> /\ exc = None /\ response_body = NoBody
  /\ gateway_id = None /\ gateway_details = NoDetails /\ target_id = None
  /\ todo = <<>> /\ attempt = 0 /\ tries = 0
  /\ elapsed = 0 /\ status = None /\ polls = 0 /\ seen = <<>> /\ slept = 0
  /\ gateways = (GwId(1) :> "demo")
  /\ \E k \in 0..BenchTargets :
       /\ nextTg = k + 1
       /\ \E l \in Listings({TgId(n) : n \in 1..k}) :
            targets = (GwId(1) :> l)
  /\ nextGw = 2
  /\ inv = 1 /\ prev = NoPrev /\ result = NoResult
  /\ puts = <<>> /\ ssmLog = <<>> /\ calls = NoCalls
  /\ bench = FALSE
  /\ NewTools

NextDelete ==
  \/ handler \/ handler_except \/ send_response
  \/ delete_gateway \/ delete_list_targets \/ delete_gateway_target
  \/ delete_sleep \/ delete_the_gateway \/ delete_gateway_send

SpecDelete == InitDelete /\ [][NextDelete]_vars

\* ------------------------------------------------- CodeInterpreterTools
\* (src/patterns/strands-single-agent/code_interpreter_tools.py)
\* One tools object; its caller makes execute_python and cleanup calls one
\* after the other.  Each call on a CodeInterpreter client (start, stop,
\* invoke) succeeds or raises, as the service decides; an exception leaves
\* the method it was raised in and the method that called it.
custom_resource == <<event, pc, stack, exc, response_body, locals, remote, inv, prev,
            result, puts, ssmLog, calls, obs, bench>>

ClientCall(op, ok) == [op |-> op, client |-> code_client, ok |-> ok]

\* lines 43-57: the tool is called; the description is put before the code
\* and the client is asked for
execute_python ==
  /\ tpc = "idle" /\ ops < MaxToolCalls
  /\ ops' = ops + 1
  /\ tpc' = "_get_code_interpreter_client"
  /\ UNCHANGED <<code_client, sessions, hist, custom_resource>>

\* the test of line 28
NeedsClient(c) == c = NoClient

\* lines 26-31 and 34: a client is built and stored when there is none (or
\* building it raises and none is stored); a stored client is returned as is
get_code_interpreter_client ==
  /\ tpc = "_get_code_interpreter_client"
  /\ IF NeedsClient(code_client)
     THEN \/ /\ code_client' = Len(sessions) + 1
             /\ sessions' = Append(sessions, "new")
             /\ tpc' = "start"
          \/ /\ tpc' = "idle"
             /\ UNCHANGED <<code_client, sessions>>
     ELSE /\ tpc' = "invoke"
          /\ UNCHANGED <<code_client, sessions>>
  /\ UNCHANGED <<hist, ops, custom_resource>>

\* lines 32-33: the stored client is started; when start raises, the
\* exception leaves execute_python and the client stays stored
start ==
  /\ tpc = "start"
  /\ \/ /\ hist' = Append(hist, ClientCall("start", TRUE))
        /\ sessions' = [sessions EXCEPT ![code_client] = "started"]
        /\ tpc' = "invoke"
     \/ /\ hist' = Append(hist, ClientCall("start", FALSE))
        /\ sessions' = sessions
        /\ tpc' = "idle"
  /\ UNCHANGED <<code_client, ops, custom_resource>>

\* lines 58-65: the code is sent to the client; the first result is
\* returned, or invoke raises
invoke ==
  /\ tpc = "invoke"
  /\ \E ok \in BOOLEAN : hist' = Append(hist, ClientCall("invoke", ok))
  /\ tpc' = "idle"
  /\ UNCHANGED <<code_client, sessions, ops, custom_resource>>

\* lines 36-40: a stored client is stopped and forgotten; when stop raises,
\* line 40 is not reached and the client stays stored
cleanup ==
  /\ tpc = "idle" /\ ops < MaxToolCalls
  /\ ops' = ops + 1
  /\ IF code_client # NoClient
     THEN \/ /\ hist' = Append(hist, ClientCall("stop", TRUE))
             /\ sessions' = [sessions EXCEPT ![code_client] = "stopped"]
             /\ code_client' = NoClient
          \/ /\ hist' = Append(hist, ClientCall("stop", FALSE))
             /\ UNCHANGED <<code_client, sessions>>
     ELSE UNCHANGED <<code_client, sessions, hist>>
  /\ UNCHANGED <<tpc, custom_resource>>

InitTools == Init

NextTools ==
  \/ execute_python \/ get_code_interpreter_client \/ start \/ invoke
  \/ cleanup

SpecTools == InitTools /\ [][NextTools]_vars

\* ================================================================ properties
Done == pc = "idle" /\ inv > 0              \* an invocation has ended
WellFormed == event.RequestType # Absent /\ event.Props # "absent"
Succeeded == ~result.raised /\ result.body.Status = "SUCCESS"
GatewaysNamed(n) == {id \in DOMAIN gateways : gateways[id] = n}
SameNameUpdate ==
  event.RequestType = "Update" /\ event.OldGatewayName = event.GatewayName
ChangedNameUpdate ==
  /\ event.RequestType = "Update" /\ event.Props = "ok"
  /\ event.OldGatewayName # event.GatewayName

\* C1 -- an invocation of handler with a RequestType (Create, Update with or
\* without a name change, Delete, unknown) attempts exactly one HTTP PUT to
\* ResponseURL, whatever fails: never zero, never two, no second attempt after
\* a failed delivery.
C1_ExactlyOnePut == (Done /\ WellFormed) => Len(puts) = 1

\* C2 -- a Delete event ends with a SUCCESS Outcome whichever of
\* list_gateway_targets, delete_gateway_target and delete_gateway fails and
\* wherever it fails: the body delete_gateway sends is SUCCESS for the physical
\* id of the event, and unless the delivery of that body itself fails, it is
\* what handler returns.
C2_DeleteReportsSuccess ==
  event.RequestType = "Delete" =>
    /\ puts # <<>> =>
         /\ puts[1].Status = "SUCCESS"
         /\ puts[1].PhysicalResourceId = event.PhysicalResourceId
    /\ (Done /\ obs.handled = None /\ ~result.raised) =>
         /\ result.body.Status = "SUCCESS"
         /\ Len(puts) = 1
    /\ (Done /\ result.raised) => Len(puts) = 2

\* C2 witness: a Delete of an existing gateway whose target deletion failed
\* (so the gateway itself was not deleted) has ended with SUCCESS.
C2_Witness ==
  /\ Done /\ event.RequestType = "Delete" /\ obs.existed
  /\ calls.delete_gateway_target = 1 /\ calls.delete_gateway = 0
  /\ Exists(event.PhysicalResourceId)
  /\ Succeeded

\* C3 -- no exception leaves handler: every invocation returns an Outcome, and
\* when the chain raised, the Outcome is FAILED with the exception's message
\* as Reason.
C3_NothingEscapes ==
  Done =>
    /\ ~result.raised
    /\ obs.handled # None =>
         /\ result.body.Status = "FAILED"
         /\ result.body.Reason = obs.handled

\* C4 -- a Create that follows a successful Create of the same GatewayName,
\* and whose lookup finds that gateway, reports the same gateway id, and the
\* control plane then holds exactly one gateway of that name, whatever the
\* later calls of the second invocation do.
C4_CreateTwiceSameId ==
  ( /\ Done /\ event.RequestType = "Create" /\ event.Props = "ok"
    /\ prev # NoPrev /\ prev.GatewayName = event.GatewayName
    /\ obs.found = prev.PhysicalResourceId )
  => /\ ~result.raised
     /\ result.body.PhysicalResourceId = prev.PhysicalResourceId
     /\ Cardinality(GatewaysNamed(event.GatewayName)) = 1

\* C5 -- single-target invariant: every gateway of the control plane has at
\* most one target, after any sequence of invocations and failures.
C5_AtMostOneTarget == \A id \in DOMAIN targets : Len(targets[id]) <= 1

\* C6 -- an Update whose old and new GatewayName are equal never issues
\* delete_gateway, delete_gateway_target or create_gateway, and a gateway that
\* PhysicalResourceId named when the invocation began is still there at every
\* later moment of it, whatever the invocation's outcome.
C6_SameNameUpdateKeepsGateway ==
  SameNameUpdate =>
    /\ calls.delete_gateway = 0
    /\ calls.delete_gateway_target = 0
    /\ calls.create_gateway = 0
    /\ obs.delPhase = "none"
    /\ obs.existed => Exists(event.PhysicalResourceId)

\* C6 witness: a same-name Update of an existing gateway has ended, its target
\* reconciled by an update call.
C6_Witness ==
  /\ Done /\ SameNameUpdate /\ event.Props = "ok"
  /\ obs.existed /\ Exists(event.PhysicalResourceId)
  /\ calls.update_gateway_target = 1
  /\ Succeeded

\* C7 -- an Update whose old and new GatewayName differ runs the delete of
\* the old physical id to its end before any step of the create begins, and
\* every SUCCESS it reports carries a PhysicalResourceId other than the
\* event's original one.
C7_ReplaceReportsNewId ==
  ChangedNameUpdate =>
    /\ (obs.found # None \/ obs.created # None) => obs.delPhase = "done"
    /\ \A i \in 1..Len(puts) :
         puts[i].Status = "SUCCESS" =>
           puts[i].PhysicalResourceId # event.PhysicalResourceId

\* ------------------------------------------------ create_target_with_retry
Mentions(e) == Contains(e, "CREATING") \/ Contains(e, "UPDATING")
InRetry ==
  pc \in {"create_gateway_target", "retry_except", "retry_return",
          "retry_exhausted"}

\* C8 -- create_target_with_retry makes exactly 5 create_gateway_target calls
\* when every call fails with an error mentioning CREATING or UPDATING and
\* then raises 'Failed to create target after 5 attempts'; any other error is
\* raised at once, unchanged, with no sleep and no further call (one call in
\* all when it is the first call's error); the first successful call ends the
\* loop, its targetId is returned and no further call is made.
C8_RetryLoop ==
  [][ /\ InRetry => tries <= 5 /\ attempt < tries + 1
      /\ pc = "retry_exhausted" => tries = 5
      /\ pc = "retry_exhausted" =>
           /\ pc' \in {"handler_except", "create_new_gateway"}
           /\ pc' = "handler_except" =>
                exc' = "Failed to create target after 5 attempts"
           /\ calls' = calls
      /\ (pc = "retry_except" /\ Mentions(exc)) =>
           /\ tries < 5 => pc' = "create_gateway_target"
           /\ tries = 5 => pc' = "retry_exhausted"
      /\ (pc = "retry_except" /\ ~Mentions(exc)) =>
           /\ attempt = 0 => tries = 1 /\ slept = 0
           /\ pc' \in {"handler_except", "create_new_gateway"}
           /\ pc' = "handler_except" => exc' = exc
           /\ calls' = calls
      /\ pc = "retry_return" =>
           /\ tries = attempt + 1
           /\ target_id = TargetsOf(gateway_id)[Len(TargetsOf(gateway_id))]
           /\ pc' \notin {"create_gateway_target", "retry_except"}
           /\ target_id' = target_id
           /\ calls' = calls
    ]_vars

\* C8 witness: five calls have failed with transient errors and the loop is
\* about to give up.
C8_Witness == pc = "retry_exhausted" /\ tries = 5 /\ attempt = 5

\* -------------------------------------------------- wait_for_gateway_ready
Last(seq) == seq[Len(seq)]
Terminal == {"READY", "FAILED", "DELETING"}

\* C9 -- wait_for_gateway_ready returns at the first poll that observes
\* READY, raises an error naming the status at the first poll that observes
\* FAILED or DELETING, and polls again after any other status: the statuses
\* CREATING, CREATING, READY end in a return after three polls, and CREATING,
\* FAILED in an error after two.
C9_FirstTerminalStatusEndsWait ==
  /\ \A i \in 1..(Len(seen) - 1) : seen[i] \notin Terminal
  /\ pc \in {"wait_check", "wait_poll", "wait_return", "wait_raise",
             "wait_timeout"} => polls = Len(seen)
  /\ pc = "wait_return" <=> (seen # <<>> /\ Last(seen) = "READY")
  /\ pc = "wait_raise" <=> (seen # <<>> /\ Last(seen) \in {"FAILED", "DELETING"})
  /\ pc = "wait_return" => status = "READY"
  /\ pc = "wait_raise" => status = Last(seen)
  /\ (pc = "handler_except" /\ obs.wrExit \in {"FAILED", "DELETING"}) =>
       exc = "Gateway in unexpected status: " \o obs.wrExit
  /\ pc = "new_get_gateway" <=> obs.wrExit = "ready"
  /\ seen = <<"CREATING", "CREATING", "READY">> =>
       pc = "wait_return" /\ polls = 3
  /\ seen = <<"CREATING", "FAILED">> => pc = "wait_raise" /\ polls = 2

\* C9 witness: the third poll observed READY after two CREATING.
C9_Witness ==
  pc = "wait_return" /\ seen = <<"CREATING", "CREATING", "READY">>

\* C10 -- wait_for_gateway_ready always terminates; it starts no poll once 120
\* units have elapsed, makes at most 12 polls (exactly 12 before the timeout
\* when no poll takes time), and when no poll observed READY, FAILED or
\* DELETING before the deadline it raises 'Gateway not ready after 120s'.
C10_WaitTerminates ==
  /\ [](/\ polls <= 12
        /\ pc = "wait_poll" => elapsed < 120
        /\ pc = "wait_timeout" =>
             /\ elapsed >= 120 /\ Last(seen) \notin Terminal
             /\ elapsed = 10 * polls => polls = 12
        /\ (pc = "handler_except" /\ obs.wrExit = "timeout") =>
             exc = "Gateway not ready after 120s")
  /\ <>(pc \in {"new_get_gateway", "handler_except"})

\* C10 witness: twelve polls that took no time, none of them terminal, have
\* used up the 120 units.
C10_Witness == pc = "wait_timeout" /\ polls = 12 /\ elapsed = 120

\* ------------------------------------------------------------ whole paths
DataOf(body, key) == {p[2] : p \in {q \in body.Data : q[1] = key}}
TemplateUrl(id) ==
  "https://" \o id \o ".gateway.bedrock-agentcore.us-east-1.amazonaws.com/mcp"
\* a Create that found no gateway, created one where none was, created the
\* target at the first attempt, and raised nothing to handler
HappyCreate ==
  /\ Done /\ event.RequestType = "Create" /\ event.Props = "ok"
  /\ obs.found = None /\ obs.created # None
  /\ DOMAIN gateways = {obs.created}
  /\ obs.ctrExit = "returned"
  /\ obs.handled = None /\ ~result.raised
HappyCounts ==
  /\ calls.create_gateway = 1
  /\ obs.wrExit = "ready"
  /\ calls.create_gateway_target = 1 /\ calls.update_gateway_target = 0
  /\ Len(targets[obs.created]) = 1
  /\ Len(puts) = 1 /\ puts[1] = result.body
  /\ result.body.Status = "SUCCESS"
  /\ DataOf(result.body, "GatewayId") = {obs.created}
  /\ DataOf(result.body, "TargetId") = {targets[obs.created][1]}

\* C11 as claimed -- a Create with no pre-existing gateway and every call
\* succeeding makes one create_gateway call, one poll sequence ending READY,
\* one create_gateway_target call, three configuration-store writes
\* (gateway_url, target_id, gateway_id) and one SUCCESS callback whose
\* Data.GatewayId is the new id, whether or not the record carries a url.
C11_HappyCreateThreeWrites ==
  HappyCreate =>
    /\ HappyCounts
    /\ Len(ssmLog) = 3
    /\ <<ssmLog[1][1], ssmLog[2][1], ssmLog[3][1]>> =
         <<"gateway_url", "target_id", "gateway_id">>

\* C11 amended -- the same counts, with three configuration-store writes when
\* get_gateway reported a url and two (target_id, gateway_id) when it did not;
\* the callback then carries the url built from the id.
C11_HappyCreate ==
  HappyCreate =>
    /\ HappyCounts
    /\ \/ /\ ssmLog = << <<"gateway_url", ApiUrl(obs.created)>>,
                         <<"target_id", targets[obs.created][1]>>,
                         <<"gateway_id", obs.created>> >>
          /\ DataOf(result.body, "GatewayUrl") = {ApiUrl(obs.created)}
       \/ /\ ssmLog = << <<"target_id", targets[obs.created][1]>>,
                         <<"gateway_id", obs.created>> >>
          /\ DataOf(result.body, "GatewayUrl") = {TemplateUrl(obs.created)}

\* C11 witness: such a Create has ended for a gateway record without a url.
C11_Witness ==
  /\ HappyCreate /\ Succeeded /\ Len(ssmLog) = 2
  /\ DataOf(result.body, "GatewayUrl") = {TemplateUrl(obs.created)}

\* a same-name Update of an existing gateway in which every call but (perhaps)
\* those of create_or_update_target's try block succeeded
QuietSameNameUpdate ==
  /\ Done /\ SameNameUpdate /\ event.Props = "ok" /\ obs.existed
  /\ obs.ctrExit \in {"none", "returned"}
  /\ obs.handled = None /\ ~result.raised

\* C12 -- an Update with the same GatewayName in old and new properties issues
\* exactly one target-mutating call in all (one update_gateway_target or one
\* create_gateway_target, never both) and ends with one SUCCESS callback,
\* whatever the target list holds and however update_gateway_target ends.
C12_OneTargetCall ==
  QuietSameNameUpdate =>
    /\ calls.update_gateway_target + calls.create_gateway_target = 1
    /\ Len(puts) = 1 /\ puts[1].Status = "SUCCESS"

\* create_gateway or update_gateway is about to send its SUCCESS body
SendingSuccess ==
  /\ pc = "send_response" /\ response_body.Status = "SUCCESS"
  /\ event.RequestType \in {"Create", "Update"}
  /\ response_body.Data # {}

C14_ExistingGatewayShortCircuit ==
  obs.found # None =>
    /\ calls.create_gateway = 0
    /\ obs.created = None
    /\ obs.wrExit = "none" /\ pc \notin {"wait_check", "wait_poll"}
    /\ Done => Succeeded /\ result.body.PhysicalResourceId = obs.found

\* how a failed wait_for_gateway_ready ends
PollerFailed == {"FAILED", "DELETING", "timeout"}

\* C15 -- on the new-gateway path (from the create_gateway call on)
\* create_gateway_target is issued only after the poller saw READY for the
\* gateway just created; once the poller has failed (FAILED, DELETING,
\* timeout) no create_gateway_target call and no configuration-store write is
\* issued and the Outcome is FAILED; an invocation that came to the path with
\* no gateway found has then issued none at all.
C15_TargetOnlyAfterReady ==
  [][ /\ (pc = "create_gateway_target" /\ obs.created # None) =>
           obs.wrExit = "ready" /\ gateway_id = obs.created
      /\ (obs.wrExit \in PollerFailed /\ pc # "idle") =>
           /\ calls'.create_gateway_target = calls.create_gateway_target
           /\ ssmLog' = ssmLog
           /\ pc' = "send_response" => response_body'.Status = "FAILED"
           /\ (pc' = "idle" /\ ~result'.raised) =>
                result'.body.Status = "FAILED"
      /\ (obs.wrExit \in PollerFailed /\ obs.found = None) =>
           calls.create_gateway_target = 0 /\ ssmLog = <<>>
    ]_vars

\* C15 witness: a Create whose new gateway never became READY has ended FAILED
\* with the timeout as Reason.
C15_Witness ==
  /\ Done /\ event.RequestType = "Create" /\ obs.created # None
  /\ obs.wrExit = "timeout" /\ calls.create_gateway_target = 0
  /\ ~result.raised /\ result.body.Status = "FAILED"
  /\ result.body.Reason = "Gateway not ready after 120s"

\* ---------------------------------------------------------- delete_gateway
\* on the bench gw1 began with the targets tg1 .. tg(nextTg - 1)
Deleted == (nextTg - 1) - Len(TargetsOf(GwId(1)))
InDeleteLoop == pc \in {"delete_gateway_target", "delete_sleep",
                        "delete_the_gateway"}

\* C16 -- delete_gateway deletes the targets of the listing one by one in
\* listing order, sleeping 5 units after each, and calls delete_gateway only
\* when every one of them has been deleted; when the listing or one target
\* deletion fails, nothing more is deleted in the invocation: the remaining
\* targets and the gateway stay.
C16_DeleteOrder ==
  [][ /\ pc = "delete_gateway_target" =>
           /\ todo # <<>> /\ todo = TargetsOf(gateway_id)
           /\ slept = 5 * Deleted
      /\ pc = "delete_sleep" =>
           /\ Tail(todo) = TargetsOf(gateway_id)
           /\ slept = 5 * (Deleted - 1)
           /\ slept' = slept + 5
      /\ pc = "delete_the_gateway" =>
           /\ todo = <<>> /\ TargetsOf(gateway_id) = <<>>
           /\ slept = 5 * Deleted
           /\ obs.existed => Deleted = nextTg - 1
      /\ gateways' # gateways => pc = "delete_the_gateway"
      /\ targets' # targets =>
           \/ pc = "delete_the_gateway"
           \/ /\ pc = "delete_gateway_target"
              /\ targets' = [targets EXCEPT ![gateway_id] = Tail(@)]
      /\ (pc \in {"delete_list_targets", "delete_gateway_target"}
          /\ pc' = "delete_gateway_send") =>
           /\ remote' = remote /\ todo' = todo
      /\ InDeleteLoop' => InDeleteLoop \/ pc = "delete_list_targets"
    ]_vars

\* C16 witness: the gateway is about to be deleted after its three targets
\* were, fifteen units slept.
C16_Witness ==
  /\ pc = "delete_the_gateway" /\ nextTg = 4 /\ Deleted = 3 /\ slept = 15
  /\ calls.delete_gateway = 0 /\ Exists(gateway_id)

\* ------------------------------------------------- create_or_update_target
\* where create_or_update_target returns to (lines 123 and 219)
CouSites == {"existing_update_ssm", "update_get_gateway"}
InCou == stack # <<>> /\ Head(stack) \in {Ret(l) : l \in CouSites}

C18_BackoffTotal ==
  /\ pc = "create_gateway_target" =>
       slept = (CASE attempt = 0 -> 0 [] attempt = 1 -> 1 [] attempt = 2 -> 3
                  [] attempt = 3 -> 7 [] attempt = 4 -> 15 [] OTHER -> -1)
  /\ pc = "retry_exhausted" => slept = 15

\* ---------------------------------------------------------- SUCCESS bodies
\* the value last written under key in this invocation, as a set
LastWritten(key) ==
  LET at == {i \in 1..Len(ssmLog) : ssmLog[i][1] = key}
  IN  {ssmLog[i][2] : i \in {j \in at : \A k \in at : k <= j}}
\* body names its gateway in both places and carries the three Data keys
Shaped(body) ==
  /\ DataOf(body, "GatewayId") = {body.PhysicalResourceId}
  /\ DataOf(body, "GatewayUrl") # {} /\ DataOf(body, "TargetId") # {}
\* the configuration store was last written with the ids body reports
Stored(body) ==
  /\ LastWritten("gateway_id") = DataOf(body, "GatewayId")
  /\ LastWritten("target_id") = DataOf(body, "TargetId")

\* C19 -- every SUCCESS body of a Create or Update invocation has
\* PhysicalResourceId equal to Data.GatewayId, carries GatewayId, GatewayUrl
\* and TargetId, and is sent only after target_id and gateway_id were written
\* to the configuration store with the values it reports.
C19_SuccessMatchesStore ==
  event.RequestType \in {"Create", "Update"} =>
    /\ (pc = "send_response" /\ response_body.Status = "SUCCESS") =>
         Shaped(response_body) /\ Stored(response_body)
    /\ \A i \in 1..Len(puts) : puts[i].Status = "SUCCESS" => Shaped(puts[i])

\* C20 -- when a Create ends with a FAILED Outcome, a gateway that the
\* invocation created and that is still in the control plane is named by the
\* Outcome's PhysicalResourceId, so that a later Delete removes it.
C20_FailedCreateNamesItsGateway ==
  ( /\ Done /\ event.RequestType = "Create"
    /\ ~result.raised /\ result.body.Status = "FAILED"
    /\ obs.created # None /\ Exists(obs.created) )
  => result.body.PhysicalResourceId = obs.created

\* ------------------------------------------- code interpreter sessions
\* the start and stop calls made so far, in order
Lifecycle == SelectSeq(hist, LAMBDA h : h.op \in {"start", "stop"})
\* c was started successfully before the i-th recorded call
StartedBefore(c, i) ==
  \E j \in 1..(i - 1) :
    hist[j].op = "start" /\ hist[j].client = c /\ hist[j].ok
\* stop was called on c before the i-th recorded call
StoppedBefore(c, i) ==
  \E j \in 1..(i - 1) : hist[j].op = "stop" /\ hist[j].client = c

\* C21 -- over any sequence of execute_python and cleanup calls: the start
\* and stop calls on clients alternate, beginning with start; at most one
\* session is started at a time; no client is started twice; a client on
\* which stop was called is not used again; an invoke goes only to a client
\* whose start completed successfully; and a cleanup that finds no client
\* changes nothing and calls nothing.
C21_SessionLifecycle ==
  /\ [](\A i \in 1..Len(Lifecycle) :
          Lifecycle[i].op = IF i % 2 = 1 THEN "start" ELSE "stop")
  /\ [](Cardinality({c \in 1..Len(sessions) : sessions[c] = "started"}) <= 1)
  /\ [](\A i, j \in 1..Len(hist) :
          (hist[i].op = "start" /\ hist[j].op = "start"
             /\ hist[i].client = hist[j].client) => i = j)
  /\ [](\A i \in 1..Len(hist) :
          hist[i].op = "invoke" =>
            /\ StartedBefore(hist[i].client, i)
            /\ ~StoppedBefore(hist[i].client, i))
  /\ [][(tpc = "idle" /\ tpc' = "idle" /\ code_client = NoClient)
         => (hist' = hist /\ sessions' = sessions
               /\ code_client' = NoClient)]_vars

====
